---------------------------- MODULE Spec2Model ----------------------------
(***************************************************************************)
(* Model of the uRing Mapper (src/Mapper): CMS selector detection, board   *)
(* discovery for one department, the campus heading parser and the main    *)
(* orchestration loop.                                                     *)
(*                                                                         *)
(* Text (URLs, hrefs, anchor texts, heading texts, markup) is modelled as  *)
(* a sequence of tokens; a token stands for the run of characters it       *)
(* spells.  Tokens are cut so that every substring the code searches for   *)
(* is a contiguous run of whole tokens, so Python's  `p in s`  is the      *)
(* contiguous-subsequence test Contains(s, p).                             *)
(***************************************************************************)
EXTENDS Integers, Sequences, FiniteSets, TLC

VARIABLES
    \* ---- detect_cms_selectors called on its own (SpecDetect)
    d_pc, d_soup, d_url, d_result,
    \* ---- discover_boards (Spec)
    pc, dept_info, dept_url, soup, default_selectors, sitemap_soup,
    result, fetches, phase, scanned, boards, seen_urls, id_counts, cats,
    sitemap_boards, outcome,
    \* ---- crawl_campus (SpecCampus)
    c_pc, header, colleges, current_college, steps, branch,
    \* ---- main (SpecMain)
    config, m_pc, crawl_i, campuses, files, departments_data,
    manual_review_items, disc_i, exit_code, fetch_log

detect_vars == <<d_pc, d_soup, d_url, d_result>>
disc_vars == <<pc, dept_info, dept_url, soup, default_selectors, sitemap_soup,
               result, fetches, phase, scanned, boards, seen_urls, id_counts,
               cats, sitemap_boards, outcome>>
campus_vars == <<c_pc, header, colleges, current_college, steps, branch>>
main_vars == <<config, m_pc, crawl_i, campuses, files, departments_data,
               manual_review_items, disc_i, exit_code, fetch_log>>
vars == <<detect_vars, disc_vars, campus_vars, main_vars>>

\* Python's None.
None == [none |-> TRUE]

-----------------------------------------------------------------------------
(* Strings as token sequences *)

\* Python `p in s` for strings.
Contains(s, p) ==
    \E i \in 0..(Len(s) - Len(p)) : SubSeq(s, i + 1, i + Len(p)) = p

\* Python s.startswith(p).
StartsWith(s, p) == Len(s) >= Len(p) /\ SubSeq(s, 1, Len(p)) = p

\* str.lower() of one token.
LowerTok(t) ==
    CASE t = "BASE" -> "base"
      [] t = "C-Board-Title" -> "c-board-title"
      [] t = "XE_BOARD" -> "xe_board"
      [] t = "Xe-List-Board" -> "xe-list-board"
      [] OTHER -> t

\* str.lower().
Lower(s) == [i \in 1..Len(s) |-> LowerTok(s[i])]

-----------------------------------------------------------------------------
(* utils/selectors.py *)

PRIMARY_SELECTORS ==
    [row_selector |-> "tr:has(a.c-board-title)",
     title_selector |-> "a.c-board-title",
     date_selector |-> "td:nth-last-child(1)",
     attr_name |-> "href"]

XE_SELECTORS ==
    [row_selector |-> "li.xe-list-board-list--item:not(.xe-list-board-list--header)",
     title_selector |-> "a.xe-list-board-list__title-link",
     date_selector |-> ".xe-list-board-list__created_at",
     attr_name |-> "href"]

\* detect_cms_selectors(soup, url): a document is [markup |-> tokens, ...].
detect_cms_selectors(doc, url) ==
    LET html_str == Lower(doc.markup) IN
    IF Contains(url, <<".do">>) \/ Contains(html_str, <<"c-board-title">>)
    THEN PRIMARY_SELECTORS
    ELSE IF Contains(html_str, <<"xe-list-board">>) \/ Contains(html_str, <<"xe_board">>)
    THEN XE_SELECTORS
    ELSE None

-----------------------------------------------------------------------------
(* URLs: urllib.parse as used by crawlers/boards.py *)

Delims == {"/", "?", "#"}

\* Smallest index i >= from with s[i] \in S, or Len(s) + 1.
FirstIdx(s, S, from) ==
    IF \E i \in from..Len(s) : s[i] \in S
    THEN CHOOSE i \in from..Len(s) :
            s[i] \in S /\ \A j \in from..(i - 1) : s[j] \notin S
    ELSE Len(s) + 1

\* Index of the "://" that ends the scheme and opens the authority, or 0.
AuthorityAt(url) ==
    LET i == FirstIdx(url, {"://"}, 1) IN
    IF i > 1 /\ i <= Len(url) /\ FirstIdx(url, Delims, 1) > i THEN i ELSE 0

\* True when the text carries a scheme of its own ("http://..", "javascript:..").
HasScheme(url) ==
    AuthorityAt(url) # 0 \/ (Len(url) >= 2 /\ url[2] = ":")

\* urlparse(url).netloc
Netloc(url) ==
    LET a == AuthorityAt(url) IN
    IF a = 0 THEN <<>> ELSE SubSeq(url, a + 1, FirstIdx(url, Delims, a + 1) - 1)

\* Index at which the path of url starts.
PathStart(url) ==
    LET a == AuthorityAt(url) IN
    IF a # 0 THEN FirstIdx(url, Delims, a + 1)
    ELSE IF HasScheme(url) THEN 3 ELSE 1

\* urlparse(url).path
UrlPath(url) ==
    SubSeq(url, PathStart(url), FirstIdx(url, {"?", "#"}, PathStart(url)) - 1)

\* The directory part of a path: up to and including its last "/".
DirOf(path) ==
    IF \E i \in 1..Len(path) : path[i] = "/"
    THEN SubSeq(path, 1,
                CHOOSE i \in 1..Len(path) :
                    path[i] = "/" /\ \A j \in (i + 1)..Len(path) : path[j] # "/")
    ELSE <<"/">>

\* urljoin(base, href) for hrefs without dot segments.
urljoin(base, href) ==
    IF href = <<>> THEN base
    ELSE IF HasScheme(href) THEN href
    ELSE IF href[1] = "/" THEN SubSeq(base, 1, PathStart(base) - 1) \o href
    ELSE SubSeq(base, 1, PathStart(base) - 1) \o DirOf(UrlPath(base)) \o href

-----------------------------------------------------------------------------
(* detect_cms_selectors on its own: SpecDetect *)

\* Bound on the number of markup tokens of a document handed to the detector.
MaxMarkup == 2

MarkupTokens ==
    {"div", "c-board-title", "C-Board-Title", "xe-list-board", "XE_BOARD", "xe_board"}

DetectMarkups ==
    UNION {[1..n -> MarkupTokens] : n \in 0..MaxMarkup}

DetectUrls ==
    { <<"http", "://", "base", "/">>,
      <<"http", "s", "://", "base", "/", "main", ".do">>,
      <<"http", "://", "base", "/", "list", "?", "p", ".do">>,
      <<"http", "://", "cs", ".do", "main.ac", "/">>,
      <<"http", "://", "cs", ".do", "main.ac", "/", "b", ".do">>,
      <<"http", "://", "base", "/", "b", ".DO">>,
      <<"http", "://", "base", "/", "a", "#", "x", ".do">>,
      <<"http", "://", "base">> }

DetectIdle ==
    /\ d_pc = "idle" /\ d_soup = None /\ d_url = <<>> /\ d_result = None

DetectInit ==
    /\ d_pc = "call"
    /\ d_soup \in {[markup |-> m] : m \in DetectMarkups}
    /\ d_url \in DetectUrls
    /\ d_result = None

Detect ==
    /\ d_pc = "call"
    /\ d_result' = detect_cms_selectors(d_soup, d_url)
    /\ d_pc' = "done"
    /\ UNCHANGED <<d_soup, d_url>>

-----------------------------------------------------------------------------
(* config.py and the inputs of board discovery *)

\* KEYWORD_MAP in dict (insertion) order.  Syllables are tokens:
\* hak bu gong ji = "학부공지", dae hak won gong ji = "대학원공지",
\* jang hak = "장학", chwi eop = "취업", gong ji sa hang = "공지사항",
\* hak sa gong ji = "학사공지".
KEYWORD_MAP ==
    << [keyword |-> <<"hak", "bu", "gong", "ji">>, id |-> "academic",
        name |-> <<"hak", "sa", "gong", "ji">>],
       [keyword |-> <<"dae", "hak", "won", "gong", "ji">>, id |-> "grad_notice",
        name |-> <<"dae", "hak", "won", "gong", "ji">>],
       [keyword |-> <<"jang", "hak">>, id |-> "scholarship",
        name |-> <<"jang", "hak", "gong", "ji">>],
       [keyword |-> <<"chwi", "eop">>, id |-> "career",
        name |-> <<"chwi", "eop", "/", "jin", "ro">>],
       [keyword |-> <<"gong", "ji", "sa", "hang">>, id |-> "notice",
        name |-> <<"il", "ban", "gong", "ji">>],
       [keyword |-> <<"hak", "sa", "gong", "ji">>, id |-> "academic",
        name |-> <<"hak", "sa", "gong", "ji">>] >>

CategoryIds == {KEYWORD_MAP[k].id : k \in 1..Len(KEYWORD_MAP)}

\* The longest text _is_valid_board_link accepts.
MaxTextLen == 20

\* The timeouts discover_boards and _find_sitemap pass to get_soup.
HomepageTimeout == 7
SitemapTimeout == 5

\* Number of anchors of one document.
MaxAnchors == 3

Filler(n) == [i \in 1..n |-> "x"]

\* Visible texts of the anchors of a document: two keywords of the same
\* category, a text holding two keywords ("취업장학"), a keyword in a text one
\* character too long, and a text without keyword.
Texts ==
    { <<"hak", "bu", "gong", "ji">>,
      <<"hak", "sa", "gong", "ji">>,
      <<"chwi", "eop", "jang", "hak">>,
      <<"gong", "ji", "sa", "hang">> \o Filler(MaxTextLen - 3),
      <<"so", "gae">> }

\* href attributes of the anchors of a document.
Hrefs ==
    { <<"/", "a">>,
      <<"http", "s", "://", "base", "/", "a">>,
      <<"http", "s", "://", "BASE", "/", "a">>,
      <<"http", "s", "://", "other", "/", "a">>,
      <<"b", ".do">>,
      <<"/", "a", "#", "top">>,
      <<"javascript", ":", "void">>,
      <<"/", "view", ".do">> }

Anchors == [text : Texts, href : Hrefs]

NOT_FOUND == <<"NOT_FOUND">>

\* Homepage URLs a department can carry (the value _extract_department_url
\* returned): the sentinel, texts that are no http(s) URL, and homepages.
DeptUrls ==
    { NOT_FOUND,
      <<>>,
      <<"/", "dept">>,
      <<"ftp", "://", "base", "/">>,
      <<"http", "x">>,
      <<"http", "s", "://", "base", "/", "sub", "/", "main">>,
      <<"http", "s", "://", "base", "/", "main", ".do">> }

DeptInfos == { [campus |-> "sinchon", name |-> "econ"] }

\* Markup of a fetched page, and the first anchor whose text matches
\* "사이트맵|Sitemap": None (no such anchor), or the anchor with its href
\* (<<>> when it has no href or an empty one).
DocMarkups == { <<"div">>, <<"div", "C-Board-Title">> }
SitemapLinks == { None, [href |-> <<>>], [href |-> <<"/", "sitemap">>] }
Docs == [markup : DocMarkups, sitemap_link : SitemapLinks]
\* Sitemap pages: nothing reads their own sitemap link.
SitemapDocs == [markup : {<<"div">>, <<"XE_BOARD">>}, sitemap_link : {None}]

\* requests.get reaches a server only for an http(s) URL with a host; for any
\* other text it raises a RequestException, which fetch_page turns into None.
Fetchable(url) ==
    /\ StartsWith(url, <<"http", "://">>) \/ StartsWith(url, <<"http", "s", "://">>)
    /\ Netloc(url) # <<>>

-----------------------------------------------------------------------------
(* crawlers/boards.py *)

Blacklist ==
    { <<"articleNo">>, <<"article_no">>, <<"mode=", "view">>, <<"seq">>,
      <<"view", ".do">>, <<"board_", "seq">> }

_is_valid_board_link(text, href) ==
    IF \E word \in Blacklist : Contains(href, word) THEN FALSE
    ELSE IF Len(text) > MaxTextLen THEN FALSE
    ELSE TRUE

ManualReviewItem(info, url, reason) ==
    [campus |-> info.campus, name |-> info.name, url |-> url, reason |-> reason]

Board(id, name, url, selectors) ==
    [id |-> id, name |-> name, url |-> url,
     row_selector |-> selectors.row_selector,
     title_selector |-> selectors.title_selector,
     date_selector |-> selectors.date_selector,
     attr_name |-> selectors.attr_name]

\* Python `a or b` on an optional dict.
OrElse(a, b) == IF a # None THEN a ELSE b

\* Mutant: the duplicate test looks the raw href up instead of the resolved URL.
seen_by_href(full_url, href, seen) == href \in seen

\* `full_url in seen_urls`
already_seen(full_url, href, seen) == full_url \in seen

\* Mutant: every id carries the counter, the first one too.
final_id_always_suffixed(base_id, n) == <<base_id, "_", ToString(n)>>

\* final_id: f"{base_id}_{n}" if n > 1 else base_id
final_id(base_id, n) ==
    IF n > 1 THEN <<base_id, "_", ToString(n)>> ELSE <<base_id>>

\* Mutant: the keyword table is walked from its last entry (last match wins).
RECURSIVE match_keyword_reversed(_, _, _)
match_keyword_reversed(text, selectors, k) ==
    LET j == Len(KEYWORD_MAP) + 1 - k IN
    IF k > Len(KEYWORD_MAP) THEN 0
    ELSE IF ~Contains(text, KEYWORD_MAP[j].keyword)
         THEN match_keyword_reversed(text, selectors, k + 1)
    ELSE IF selectors = None THEN match_keyword_reversed(text, selectors, k + 1)
    ELSE j

\* The `for keyword, meta in KEYWORD_MAP.items()` loop from entry k on: the index
\* of the entry at which the loop appends a Board and breaks, or 0 when it runs out.
RECURSIVE match_keyword(_, _, _)
match_keyword(text, selectors, k) ==
    IF k > Len(KEYWORD_MAP) THEN 0
    ELSE IF ~Contains(text, KEYWORD_MAP[k].keyword)
         THEN match_keyword(text, selectors, k + 1)
    ELSE IF selectors = None THEN match_keyword(text, selectors, k + 1)
    ELSE k

\* Mutant: validation only looks for the sentinel.
url_is_sentinel(url) == url = NOT_FOUND

\* dept_url == "NOT_FOUND" or not dept_url.startswith("http")
url_is_invalid(url) == url = NOT_FOUND \/ ~StartsWith(url, <<"http">>)

\* Mutant: whatever the sitemap extraction returned is the result.
sitemap_always_usable(bs) == TRUE

\* `if boards:` after the sitemap extraction
sitemap_usable(bs) == bs # <<>>

\* Mutant: an empty homepage extraction is routed to manual review.
homepage_result_flagging_empty(bs) ==
    [boards |-> bs,
     manual_review |->
        IF bs = <<>> THEN ManualReviewItem(dept_info, dept_url, "No boards found")
        ELSE None]

\* The BoardDiscoveryResult returned after the homepage extraction.
homepage_result(bs) == [boards |-> bs, manual_review |-> None]

NoCounts == [c \in CategoryIds |-> 0]

\* Mutant: the category counter is taken before the selector test.
counts_taken_before_selectors(counts, text) ==
    [counts EXCEPT ![KEYWORD_MAP[match_keyword(text, PRIMARY_SELECTORS, 1)].id] = @ + 1]

\* id_counts after `if not selectors: continue` was taken for every keyword the
\* text contains: the increment sits below the test and is never reached.
counts_without_selectors(counts, text) == counts

DiscIdle ==
    /\ pc = "idle" /\ dept_info = None /\ dept_url = <<>> /\ soup = None
    /\ default_selectors = None /\ sitemap_soup = None
    /\ result = [boards |-> <<>>, manual_review |-> None]
    /\ fetches = <<>> /\ phase = "none" /\ scanned = 0 /\ boards = <<>>
    /\ seen_urls = {} /\ id_counts = NoCounts /\ cats = <<>>
    /\ sitemap_boards = <<>> /\ outcome = "none"

\* discover_boards(dept_info, dept_url) is entered: result = BoardDiscoveryResult().
DiscInit ==
    /\ pc = "validate"
    /\ dept_info \in DeptInfos
    /\ dept_url \in DeptUrls
    /\ soup = None /\ default_selectors = None /\ sitemap_soup = None
    /\ result = [boards |-> <<>>, manual_review |-> None]
    /\ fetches = <<>> /\ phase = "none" /\ scanned = 0 /\ boards = <<>>
    /\ seen_urls = {} /\ id_counts = NoCounts /\ cats = <<>>
    /\ sitemap_boards = <<>> /\ outcome = "none"

extract_vars == <<scanned, boards, seen_urls, id_counts, cats, outcome>>

\* The URL check fails: manual review, no fetch.
RejectInvalidUrl ==
    /\ pc = "validate"
    /\ url_is_invalid(dept_url)
    /\ result' = [result EXCEPT !.manual_review =
                    ManualReviewItem(dept_info, dept_url, "Homepage URL is invalid")]
    /\ pc' = "done"
    /\ UNCHANGED <<dept_info, dept_url, soup, default_selectors, sitemap_soup,
                   fetches, phase, extract_vars, sitemap_boards>>

\* get_soup(dept_url, timeout=7) returns None.
FetchHomepageFails ==
    /\ pc = "validate"
    /\ ~url_is_invalid(dept_url)
    /\ fetches' = Append(fetches, [url |-> dept_url, timeout |-> HomepageTimeout])
    /\ result' = [result EXCEPT !.manual_review =
                    ManualReviewItem(dept_info, dept_url, "Failed to fetch homepage")]
    /\ pc' = "done"
    /\ UNCHANGED <<dept_info, dept_url, soup, default_selectors, sitemap_soup,
                   phase, extract_vars, sitemap_boards>>

\* get_soup(dept_url, timeout=7) returns doc; the default selectors are detected.
FetchHomepage(doc) ==
    /\ pc = "validate"
    /\ ~url_is_invalid(dept_url)
    /\ Fetchable(dept_url)
    /\ fetches' = Append(fetches, [url |-> dept_url, timeout |-> HomepageTimeout])
    /\ soup' = doc
    /\ default_selectors' = detect_cms_selectors(doc, dept_url)
    /\ pc' = "find_sitemap"
    /\ UNCHANGED <<dept_info, dept_url, sitemap_soup, result, phase,
                   extract_vars, sitemap_boards>>

HasSitemapHref == soup.sitemap_link # None /\ soup.sitemap_link.href # <<>>

\* _find_sitemap finds no link with an href: the homepage is extracted.
NoSitemapLink ==
    /\ pc = "find_sitemap"
    /\ ~HasSitemapHref
    /\ phase' = "home"
    /\ pc' = "extract"
    /\ UNCHANGED <<dept_info, dept_url, soup, default_selectors, sitemap_soup,
                   result, fetches, extract_vars, sitemap_boards>>

\* _find_sitemap: get_soup(sitemap_url, timeout=5) returns None.
FetchSitemapFails ==
    /\ pc = "find_sitemap"
    /\ HasSitemapHref
    /\ fetches' = Append(fetches, [url |-> urljoin(dept_url, soup.sitemap_link.href),
                                   timeout |-> SitemapTimeout])
    /\ phase' = "home"
    /\ pc' = "extract"
    /\ UNCHANGED <<dept_info, dept_url, soup, default_selectors, sitemap_soup,
                   result, extract_vars, sitemap_boards>>

\* _find_sitemap: get_soup(sitemap_url, timeout=5) returns doc, which is extracted.
FetchSitemap(doc) ==
    /\ pc = "find_sitemap"
    /\ HasSitemapHref
    /\ Fetchable(urljoin(dept_url, soup.sitemap_link.href))
    /\ fetches' = Append(fetches, [url |-> urljoin(dept_url, soup.sitemap_link.href),
                                   timeout |-> SitemapTimeout])
    /\ sitemap_soup' = doc
    /\ phase' = "sitemap"
    /\ pc' = "extract"
    /\ UNCHANGED <<dept_info, dept_url, soup, default_selectors, result,
                   extract_vars, sitemap_boards>>

\* One iteration of the anchor loop of _extract_boards_from_soup(doc, dept_url,
\* default_selectors), doc being the document of the current phase.  outcome
\* records how the iteration ended: "filtered" (link test, script, fragment or
\* other host), "seen", "no_keyword", "no_selectors" or "board".
ExtractLink(link) ==
    LET doc == IF phase = "sitemap" THEN sitemap_soup ELSE soup
        text == link.text
        href == link.href
        full_url == urljoin(dept_url, href)
        base_domain == Lower(Netloc(dept_url))
        link_domain == Lower(Netloc(full_url))
        selectors == OrElse(detect_cms_selectors(doc, full_url), default_selectors)
        k == match_keyword(text, selectors, 1)
        base_id == KEYWORD_MAP[k].id
        n == id_counts[base_id] + 1
        skipped(why) ==
            outcome' = why /\ UNCHANGED <<boards, seen_urls, id_counts, cats>>
    IN
    /\ pc = "extract"
    /\ scanned < MaxAnchors
    /\ scanned' = scanned + 1
    /\ IF ~_is_valid_board_link(text, href) THEN skipped("filtered")
       ELSE IF already_seen(full_url, href, seen_urls) THEN skipped("seen")
       ELSE IF Contains(href, <<"javascript">>) \/ Contains(href, <<"#">>)
            THEN skipped("filtered")
       ELSE IF link_domain # base_domain THEN skipped("filtered")
       ELSE IF k = 0
            THEN IF match_keyword(text, PRIMARY_SELECTORS, 1) = 0
                 THEN skipped("no_keyword")
                 ELSE /\ id_counts' = counts_without_selectors(id_counts, text)
                      /\ outcome' = "no_selectors"
                      /\ UNCHANGED <<boards, seen_urls, cats>>
       ELSE /\ id_counts' = [id_counts EXCEPT ![base_id] = n]
            /\ boards' = Append(boards,
                   Board(final_id(base_id, n),
                         IF text # <<>> THEN text ELSE KEYWORD_MAP[k].name,
                         full_url, selectors))
            /\ seen_urls' = seen_urls \cup {full_url}
            /\ cats' = Append(cats, base_id)
            /\ outcome' = "board"
    /\ UNCHANGED <<pc, dept_info, dept_url, soup, default_selectors, sitemap_soup,
                   result, fetches, phase, sitemap_boards>>

\* The sitemap extraction returned boards: they are the result.
ReturnSitemapBoards ==
    /\ pc = "extract"
    /\ phase = "sitemap"
    /\ sitemap_usable(boards)
    /\ sitemap_boards' = boards
    /\ result' = [result EXCEPT !.boards = boards]
    /\ pc' = "done"
    /\ UNCHANGED <<dept_info, dept_url, soup, default_selectors, sitemap_soup,
                   fetches, phase, extract_vars>>

\* The sitemap extraction returned nothing: a fresh extraction of the homepage.
SitemapFallsBack ==
    /\ pc = "extract"
    /\ phase = "sitemap"
    /\ ~sitemap_usable(boards)
    /\ sitemap_boards' = boards
    /\ phase' = "home"
    /\ scanned' = 0
    /\ boards' = <<>>
    /\ seen_urls' = {}
    /\ id_counts' = NoCounts
    /\ cats' = <<>>
    /\ outcome' = "none"
    /\ UNCHANGED <<pc, dept_info, dept_url, soup, default_selectors, sitemap_soup,
                   result, fetches>>

\* The homepage extraction returned: its boards are the result.
ReturnHomepageBoards ==
    /\ pc = "extract"
    /\ phase = "home"
    /\ result' = homepage_result(boards)
    /\ pc' = "done"
    /\ UNCHANGED <<dept_info, dept_url, soup, default_selectors, sitemap_soup,
                   fetches, phase, extract_vars, sitemap_boards>>

-----------------------------------------------------------------------------
(* crawlers/departments.py: crawl_campus *)

\* Tokens of heading text: "gong" and "won" are single Hangul syllables,
\* "daehak" spells "대학", "gyosujin" spells "교수진", "homepage" spells
\* "홈페이지", " " is a blank and "E" a Latin letter.
Hangul == {"gong", "won", "daehak", "gyosujin", "homepage"}

\* Number of h1 headings of one campus page.
MaxHeadings == 4

\* header.get_text(strip=True) of the h1 elements of a campus page.
Headings ==
    { <<"gong", "daehak">>,
      <<"won", "daehak">>,
      <<"gong", "daehak", "gyosujin", "E">>,
      <<"gong", "daehak", " ", "homepage", "E">>,
      <<"gong", " ", "won", "daehak">>,
      <<"gong">>,
      <<"won", "homepage">>,
      <<"won">>,
      <<"daehak", "won">>,
      <<"E", "daehak">>,
      <<"gyosujin", "gong">> }

\* What _extract_department_url can return for a heading.
DeptPageUrls ==
    { NOT_FOUND, <<"http", "://", "econ", ".yonsei.ac.kr", "/">> }

\* re.sub(marker + ".*", "", text): the text up to the first marker.
CutAt(text, marker) == SubSeq(text, 1, FirstIdx(text, {marker}, 1) - 1)

\* str.strip()
RECURSIVE Strip(_)
Strip(text) ==
    IF text = <<>> THEN text
    ELSE IF text[1] = " " THEN Strip(Tail(text))
    ELSE IF text[Len(text)] = " " THEN Strip(SubSeq(text, 1, Len(text) - 1))
    ELSE text

\* The two re.sub calls and the strip of crawl_campus.
CleanHeading(raw) == Strip(CutAt(CutAt(raw, "gyosujin"), "homepage"))

\* college_pattern.search(text) with college_pattern = r"([가-힣]+대학)$"
college_pattern(text) ==
    /\ Len(text) >= 2
    /\ text[Len(text)] = "daehak"
    /\ text[Len(text) - 1] \in Hangul

\* _generate_department_id(name, url)
_generate_department_id(name, url) ==
    IF /\ url # <<>> /\ url # NOT_FOUND
       /\ \/ StartsWith(url, <<"http", "://">>) /\ Len(url) >= 4
             /\ url[4] = ".yonsei.ac.kr"
          \/ StartsWith(url, <<"http", "s", "://">>) /\ Len(url) >= 5
             /\ url[5] = ".yonsei.ac.kr"
    THEN <<"yonsei_", LowerTok(url[FirstIdx(url, {"://"}, 1) + 1])>>
    ELSE <<"yonsei_">> \o [i \in 1..Len(name) |->
                              IF name[i] = " " THEN "_" ELSE LowerTok(name[i])]

College(name) == [name |-> name, departments |-> <<>>]
Department(id, name, url) == [id |-> id, name |-> name, url |-> url, boards |-> <<>>]

\* Mutant: a college header is a repeat when any College of the campus has its name.
college_seen_anywhere(text) ==
    \E i \in 1..Len(colleges) : colleges[i].name = text

\* Mutant: the repeat test is missing.
college_never_repeated(text) == FALSE

\* `current_college and current_college.name == text`; current_college is the
\* index in campus.colleges of the College object the variable refers to, 0 for None.
college_repeated(text) ==
    current_college # 0 /\ colleges[current_college].name = text

\* Mutant: the duplicate test on the department name is missing.
department_never_listed(text) == FALSE

\* `any(d.name == text for d in current_college.departments)`
department_listed(text) ==
    \E i \in 1..Len(colleges[current_college].departments) :
        colleges[current_college].departments[i].name = text

CampusIdle ==
    /\ c_pc = "idle" /\ header = <<>> /\ colleges = <<>>
    /\ current_college = 0 /\ steps = 0 /\ branch = "none"

\* crawl_campus(url, campus_name) is entered.
CampusInit ==
    /\ c_pc = "fetch" /\ header = <<>> /\ colleges = <<>>
    /\ current_college = 0 /\ steps = 0 /\ branch = "none"

\* get_soup(url) returns None: crawl_campus returns None.
CampusFetchFails ==
    /\ c_pc = "fetch"
    /\ c_pc' = "none"
    /\ UNCHANGED <<header, colleges, current_college, steps, branch>>

\* The page has no <main>: crawl_campus returns None.
CampusNoMain ==
    /\ c_pc = "fetch"
    /\ c_pc' = "none"
    /\ UNCHANGED <<header, colleges, current_college, steps, branch>>

\* The page and its <main> are there: campus = Campus(campus=campus_name).
CampusFetched ==
    /\ c_pc = "fetch"
    /\ c_pc' = "loop"
    /\ UNCHANGED <<header, colleges, current_college, steps, branch>>

\* One iteration of `for header in main.find_all("h1")`; raw is the heading's
\* text and url what _extract_department_url returns for it.
ProcessHeader(raw, url) ==
    LET text == CleanHeading(raw) IN
    /\ c_pc = "loop"
    /\ steps < MaxHeadings
    /\ steps' = steps + 1
    /\ header' = raw
    /\ IF text = <<>>
       THEN branch' = "empty" /\ UNCHANGED <<colleges, current_college>>
       ELSE IF college_pattern(text)
       THEN IF college_repeated(text)
            THEN branch' = "college_repeated" /\ UNCHANGED <<colleges, current_college>>
            ELSE /\ colleges' = Append(colleges, College(text))
                 /\ current_college' = Len(colleges) + 1
                 /\ branch' = "college_opened"
       ELSE IF current_college # 0 /\ ~Contains(text, <<"daehak">>)
       THEN IF department_listed(text)
            THEN branch' = "department_duplicate"
                 /\ UNCHANGED <<colleges, current_college>>
            ELSE /\ colleges' =
                       [colleges EXCEPT ![current_college].departments =
                           Append(@, Department(_generate_department_id(text, url),
                                                text, url))]
                 /\ branch' = "department_added"
                 /\ UNCHANGED current_college
       ELSE branch' = "ignored" /\ UNCHANGED <<colleges, current_college>>
    /\ UNCHANGED c_pc

\* `return campus`
ReturnCampus ==
    /\ c_pc = "loop"
    /\ c_pc' = "done"
    /\ UNCHANGED <<header, colleges, current_college, steps, branch>>

-----------------------------------------------------------------------------
(* crawlers/departments.py: crawl_all_campuses, and main.py *)

\* config.CAMPUSES: (url, name) pairs.
CAMPUSES ==
    << [url |-> <<"http", "s", "://", "www.yonsei.ac.kr", "/", "sc", "/", "subview", ".do">>,
        name |-> "sinchon"],
       [url |-> <<"http", "s", "://", "mirae.yonsei.ac.kr", "/", "wj", "/", "subview", ".do">>,
        name |-> "mirae"] >>

OutputFiles == {"DEPARTMENTS_FILE", "DEPARTMENTS_BOARDS_FILE", "MANUAL_REVIEW_FILE"}

DeptEcon ==
    Department(<<"yonsei_", "econ">>, <<"gong">>,
               <<"http", "://", "econ", ".yonsei.ac.kr", "/">>)
DeptNoUrl == Department(<<"yonsei_", "won">>, <<"won">>, NOT_FOUND)

\* College lists crawl_campus can return (each is reachable in SpecCampus).
CampusShapes ==
    { <<>>,
      << [name |-> <<"gong", "daehak">>, departments |-> <<DeptEcon>>] >>,
      << [name |-> <<"gong", "daehak">>, departments |-> <<DeptEcon, DeptNoUrl>>] >>,
      << [name |-> <<"gong", "daehak">>, departments |-> <<DeptNoUrl>>],
         [name |-> <<"won", "daehak">>, departments |-> <<DeptEcon>>] >> }

\* A Board as discover_boards returns it, for a homepage on which one is found.
SampleBoard(url) ==
    Board(<<"notice">>, <<"gong", "ji", "sa", "hang">>, url \o <<"a">>, PRIMARY_SELECTORS)

\* What discover_boards(info, url) can return, by outcome of its homepage fetch.
DiscoverOutcomes(info, url) ==
    IF url_is_invalid(url)
    THEN { [fetch |-> "not_attempted",
            result |-> [boards |-> <<>>,
                        manual_review |->
                            ManualReviewItem(info, url, "Homepage URL is invalid")]] }
    ELSE { [fetch |-> "failed",
            result |-> [boards |-> <<>>,
                        manual_review |->
                            ManualReviewItem(info, url, "Failed to fetch homepage")]] }
         \cup
         (IF Fetchable(url)
          THEN { [fetch |-> "ok", result |-> homepage_result(bs)] :
                    bs \in {<<>>, <<SampleBoard(url)>>} }
          ELSE {})

\* The (campus, college, department) index triples of departments_data, in the
\* order of main's three nested loops.
RECURSIVE DeptPaths(_, _, _, _)
DeptPaths(data, ci, gi, di) ==
    IF ci > Len(data) THEN <<>>
    ELSE IF gi > Len(data[ci].colleges) THEN DeptPaths(data, ci + 1, 1, 1)
    ELSE IF di > Len(data[ci].colleges[gi].departments)
         THEN DeptPaths(data, ci, gi + 1, 1)
    ELSE <<[c |-> ci, g |-> gi, d |-> di]>> \o DeptPaths(data, ci, gi, di + 1)

\* Mutant: main gives up as soon as one configured campus could not be crawled.
some_campus_missing(cs) == Len(cs) < Len(config)

\* `if not campuses:` in main
no_campus_crawled(cs) == cs = <<>>

MainIdle ==
    /\ config = <<>>
    /\ m_pc = "idle" /\ crawl_i = 0 /\ campuses = <<>> /\ files = {}
    /\ departments_data = <<>> /\ manual_review_items = <<>> /\ disc_i = 0
    /\ exit_code = -1 /\ fetch_log = <<>>

\* main() is entered; ensure_data_dir() has run.  config is the campus table the
\* run was configured with: CAMPUSES, or fewer of its entries.
MainInit ==
    /\ config \in {SubSeq(CAMPUSES, 1, n) : n \in 0..Len(CAMPUSES)}
    /\ m_pc = "crawl" /\ crawl_i = 1 /\ campuses = <<>> /\ files = {}
    /\ departments_data = <<>> /\ manual_review_items = <<>> /\ disc_i = 1
    /\ exit_code = -1 /\ fetch_log = <<>>

\* crawl_all_campuses: crawl_campus returns None for the next campus (its
\* fetch failed or the page has no <main>).
CrawlCampusFails ==
    /\ m_pc = "crawl"
    /\ crawl_i <= Len(config)
    /\ crawl_i' = crawl_i + 1
    /\ fetch_log' = Append(fetch_log, [unit |-> config[crawl_i].name, ok |-> FALSE])
    /\ UNCHANGED <<config, m_pc, campuses, files, departments_data, manual_review_items,
                   disc_i, exit_code>>

\* crawl_all_campuses: crawl_campus returns a Campus for the next campus.
CrawlCampusOk(shape) ==
    /\ m_pc = "crawl"
    /\ crawl_i <= Len(config)
    /\ crawl_i' = crawl_i + 1
    /\ campuses' = Append(campuses,
                          [campus |-> config[crawl_i].name, colleges |-> shape])
    /\ fetch_log' = Append(fetch_log, [unit |-> config[crawl_i].name, ok |-> TRUE])
    /\ UNCHANGED <<config, m_pc, files, departments_data, manual_review_items, disc_i,
                   exit_code>>

\* Step 1 ends with no campus: "Failed to crawl any campus. Exiting.", return 1.
MainGivesUp ==
    /\ m_pc = "crawl"
    /\ crawl_i > Len(config)
    /\ no_campus_crawled(campuses)
    /\ exit_code' = 1
    /\ m_pc' = "exit"
    /\ UNCHANGED <<config, crawl_i, campuses, files, departments_data, manual_review_items,
                   disc_i, fetch_log>>

\* Step 1 ends with campuses: they are serialised and DEPARTMENTS_FILE is saved.
SaveDepartments ==
    /\ m_pc = "crawl"
    /\ crawl_i > Len(config)
    /\ ~no_campus_crawled(campuses)
    /\ departments_data' = campuses
    /\ files' = files \cup {"DEPARTMENTS_FILE"}
    /\ m_pc' = "discover"
    /\ UNCHANGED <<config, crawl_i, campuses, manual_review_items, disc_i, exit_code,
                   fetch_log>>

\* Step 2, one department: discover_boards returns out.result.
DiscoverDepartment ==
    LET paths == DeptPaths(departments_data, 1, 1, 1) IN
    /\ m_pc = "discover"
    /\ disc_i <= Len(paths)
    /\ LET p == paths[disc_i]
           dept == departments_data[p.c].colleges[p.g].departments[p.d]
           info == [campus |-> departments_data[p.c].campus, name |-> dept.name]
       IN \E out \in DiscoverOutcomes(info, dept.url) :
            /\ departments_data' =
                  [departments_data EXCEPT
                      ![p.c].colleges[p.g].departments[p.d].boards = out.result.boards]
            /\ manual_review_items' =
                  IF out.result.manual_review # None
                  THEN Append(manual_review_items, out.result.manual_review)
                  ELSE manual_review_items
            /\ fetch_log' = Append(fetch_log, [unit |-> dept.name,
                                               ok |-> out.fetch = "ok"])
    /\ disc_i' = disc_i + 1
    /\ UNCHANGED <<config, m_pc, crawl_i, campuses, files, exit_code>>

\* Step 3: both result files are saved, the summary is printed, return 0.
SaveResults ==
    /\ m_pc = "discover"
    /\ disc_i > Len(DeptPaths(departments_data, 1, 1, 1))
    /\ files' = files \cup {"DEPARTMENTS_BOARDS_FILE", "MANUAL_REVIEW_FILE"}
    /\ exit_code' = 0
    /\ m_pc' = "exit"
    /\ UNCHANGED <<config, crawl_i, campuses, departments_data, manual_review_items,
                   disc_i, fetch_log>>

-----------------------------------------------------------------------------
(* Specifications *)

\* discover_boards for one department.
Init == DiscInit /\ DetectIdle /\ CampusIdle /\ MainIdle

Next ==
    \/ RejectInvalidUrl /\ UNCHANGED <<detect_vars, campus_vars, main_vars>>
    \/ FetchHomepageFails /\ UNCHANGED <<detect_vars, campus_vars, main_vars>>
    \/ \E doc \in Docs :
          FetchHomepage(doc) /\ UNCHANGED <<detect_vars, campus_vars, main_vars>>
    \/ NoSitemapLink /\ UNCHANGED <<detect_vars, campus_vars, main_vars>>
    \/ FetchSitemapFails /\ UNCHANGED <<detect_vars, campus_vars, main_vars>>
    \/ \E doc \in SitemapDocs :
          FetchSitemap(doc) /\ UNCHANGED <<detect_vars, campus_vars, main_vars>>
    \/ \E link \in Anchors :
          ExtractLink(link) /\ UNCHANGED <<detect_vars, campus_vars, main_vars>>
    \/ ReturnSitemapBoards /\ UNCHANGED <<detect_vars, campus_vars, main_vars>>
    \/ SitemapFallsBack /\ UNCHANGED <<detect_vars, campus_vars, main_vars>>
    \/ ReturnHomepageBoards /\ UNCHANGED <<detect_vars, campus_vars, main_vars>>

Spec == Init /\ [][Next]_vars

\* detect_cms_selectors applied to every (document, url) pair of the bounded sets.
InitDetect == DetectInit /\ DiscIdle /\ CampusIdle /\ MainIdle

NextDetect == Detect /\ UNCHANGED <<disc_vars, campus_vars, main_vars>>

SpecDetect == InitDetect /\ [][NextDetect]_vars

\* crawl_campus for one campus page.
InitCampus == CampusInit /\ DetectIdle /\ DiscIdle /\ MainIdle

NextCampus ==
    \/ CampusFetchFails /\ UNCHANGED <<detect_vars, disc_vars, main_vars>>
    \/ CampusNoMain /\ UNCHANGED <<detect_vars, disc_vars, main_vars>>
    \/ CampusFetched /\ UNCHANGED <<detect_vars, disc_vars, main_vars>>
    \/ \E raw \in Headings, url \in DeptPageUrls :
          ProcessHeader(raw, url) /\ UNCHANGED <<detect_vars, disc_vars, main_vars>>
    \/ ReturnCampus /\ UNCHANGED <<detect_vars, disc_vars, main_vars>>

SpecCampus == InitCampus /\ [][NextCampus]_vars

\* main: both phases and the saves.
InitMain == MainInit /\ DetectIdle /\ DiscIdle /\ CampusIdle

NextMain ==
    \/ CrawlCampusFails /\ UNCHANGED <<detect_vars, disc_vars, campus_vars>>
    \/ \E shape \in CampusShapes :
          CrawlCampusOk(shape) /\ UNCHANGED <<detect_vars, disc_vars, campus_vars>>
    \/ MainGivesUp /\ UNCHANGED <<detect_vars, disc_vars, campus_vars>>
    \/ SaveDepartments /\ UNCHANGED <<detect_vars, disc_vars, campus_vars>>
    \/ DiscoverDepartment /\ UNCHANGED <<detect_vars, disc_vars, campus_vars>>
    \/ SaveResults /\ UNCHANGED <<detect_vars, disc_vars, campus_vars>>

SpecMain == InitMain /\ [][NextMain]_vars

-----------------------------------------------------------------------------
(* Claims about board extraction and discover_boards (Spec) *)

\* C1: the board list built by one extraction, and the list discover_boards
\* returns, never hold two Boards with the same url.
C1_NoDuplicateUrl ==
    /\ \A i, j \in 1..Len(boards) : i # j => boards[i].url # boards[j].url
    /\ \A i, j \in 1..Len(result.boards) :
          i # j => result.boards[i].url # result.boards[j].url

\* An anchor resolving to a URL already listed was scanned last and dropped, and
\* the call returned two or more boards.
C1_Witness ==
    /\ pc = "done"
    /\ outcome = "seen"
    /\ Len(result.boards) >= 2

\* C2: the Nth board of category X, in encounter order, has id X when N = 1 and
\* X_N when N > 1, counted per category id and not per keyword.
C2_IdNumbering ==
    /\ Len(cats) = Len(boards)
    /\ \A i \in 1..Len(boards) :
          LET X == cats[i]
              N == Cardinality({j \in 1..i : cats[j] = X})
          IN boards[i].id = IF N = 1 THEN <<X>> ELSE <<X, "_", ToString(N)>>

\* Three boards of category "academic", reached through both of its keywords;
\* the third one is academic_3.
C2_Witness ==
    /\ Len(boards) = 3
    /\ boards[1].id = <<"academic">>
    /\ boards[2].id = <<"academic", "_", "2">>
    /\ boards[3].id = <<"academic", "_", "3">>
    /\ \E i, j \in 1..3 :
          /\ boards[i].name = <<"hak", "bu", "gong", "ji">>
          /\ boards[j].name = <<"hak", "sa", "gong", "ji">>

\* C3: when the sitemap was fetched and its extraction returned boards, the
\* result is that list and the homepage is never extracted; in every other case
\* after a successful homepage fetch the result is the homepage extraction's list.
C3_SitemapShortCircuit ==
    /\ phase = "home" => sitemap_soup = None \/ sitemap_boards = <<>>
    /\ pc = "done" /\ soup # None =>
          IF sitemap_soup # None /\ sitemap_boards # <<>>
          THEN result.boards = sitemap_boards /\ phase = "sitemap"
          ELSE result.boards = boards /\ phase = "home"

\* The sitemap yielded three boards and they were returned.
C3_Witness ==
    /\ pc = "done"
    /\ sitemap_soup # None
    /\ phase = "sitemap"
    /\ Len(result.boards) = 3

\* C4: for the sentinel or a URL that does not start with "http", no fetch is
\* made (homepage or sitemap) and the result is no boards plus one manual-review
\* item with the department's campus and name, the URL and the invalid-URL reason.
C4_InvalidUrlNoFetch ==
    (dept_url = <<"NOT_FOUND">> \/ ~StartsWith(dept_url, <<"http">>)) =>
        /\ fetches = <<>>
        /\ soup = None /\ sitemap_soup = None
        /\ pc \in {"validate", "done"}
        /\ pc = "done" =>
              result = [boards |-> <<>>,
                        manual_review |->
                            [campus |-> dept_info.campus, name |-> dept_info.name,
                             url |-> dept_url,
                             reason |-> "Homepage URL is invalid"]]

\* discover_boards returned for a URL with a scheme that is not a web scheme.
C4_Witness ==
    /\ pc = "done"
    /\ dept_url = <<"ftp", "://", "base", "/">>
    /\ result.manual_review # None

\* C5: a manual-review item is returned exactly when the URL is invalid or the
\* homepage fetch failed, and then the board list is empty; a failed sitemap
\* fetch or two empty extractions give no manual-review item.
C5_ManualReviewIff ==
    pc = "done" =>
        LET invalid == dept_url = <<"NOT_FOUND">> \/ ~StartsWith(dept_url, <<"http">>)
            homepage_failed == fetches # <<>> /\ soup = None
        IN /\ result.manual_review # None <=> (invalid \/ homepage_failed)
           /\ result.manual_review # None => result.boards = <<>>
           /\ homepage_failed =>
                 result.manual_review =
                    [campus |-> dept_info.campus, name |-> dept_info.name,
                     url |-> dept_url, reason |-> "Failed to fetch homepage"]

\* Sitemap and homepage were both extracted, both gave nothing, and no
\* manual-review item came back.
C5_Witness ==
    /\ pc = "done"
    /\ sitemap_soup # None
    /\ phase = "home"
    /\ scanned > 0
    /\ result.boards = <<>>
    /\ result.manual_review = None

\* Index of the first KEYWORD_MAP entry whose keyword text contains, 0 if none.
FirstContained(text) ==
    LET ks == {k \in 1..Len(KEYWORD_MAP) : Contains(text, KEYWORD_MAP[k].keyword)} IN
    IF ks = {} THEN 0 ELSE CHOOSE k \in ks : \A m \in ks : k <= m

\* C10: a Board's category id is that of the first keyword, in table order, that
\* its anchor text contains; one anchor adds at most one Board and increments
\* exactly one category counter, by one.
C10_FirstKeywordWins ==
    /\ [](\A i \in 1..Len(boards) :
             /\ FirstContained(boards[i].name) # 0
             /\ cats[i] = KEYWORD_MAP[FirstContained(boards[i].name)].id)
    /\ [][scanned' = scanned + 1 =>
             \/ /\ boards' = boards
                /\ id_counts' = id_counts
             \/ /\ Len(boards') = Len(boards) + 1
                /\ \E c \in CategoryIds :
                      id_counts' = [id_counts EXCEPT ![c] = id_counts[c] + 1]]_vars

\* A Board made from "취업장학", which holds the keywords of "career" and of
\* "scholarship": it is a scholarship board, the earlier table entry.
C10_Witness ==
    \E i \in 1..Len(boards) :
        /\ boards[i].name = <<"chwi", "eop", "jang", "hak">>
        /\ cats[i] = "scholarship"
        /\ id_counts["career"] = 0

\* The selector bundle a Board carries.
BundleOf(b) ==
    [row_selector |-> b.row_selector, title_selector |-> b.title_selector,
     date_selector |-> b.date_selector, attr_name |-> b.attr_name]

\* The ids of a board list number each category id X as X, X_2, ..., X_N with
\* N the number of boards of the list whose id starts with X.
ContiguousIds(bs) ==
    \A X \in CategoryIds :
        LET of_X == {i \in 1..Len(bs) : bs[i].id[1] = X} IN
        {bs[i].id : i \in of_X}
            = {IF n = 1 THEN <<X>> ELSE <<X, "_", ToString(n)>> :
                  n \in 1..Cardinality(of_X)}

\* C12: an anchor whose text contains a keyword but for which neither detection
\* nor the default yields a selector bundle is skipped without effect: the board
\* list, the seen set and every category counter stay as they were.  So each
\* counter equals the number of boards of its category, the seen set holds the
\* board URLs and nothing else, every Board of the working list and of the
\* returned result carries one of the two complete four-field bundles, and the
\* suffixes of each category are contiguous.
C12_NoSelectorsNoEffect ==
    /\ [](/\ \A X \in CategoryIds :
                id_counts[X] = Cardinality({i \in 1..Len(boards) : boards[i].id[1] = X})
          /\ seen_urls = {boards[i].url : i \in 1..Len(boards)}
          /\ \A i \in 1..Len(boards) :
                BundleOf(boards[i]) \in {PRIMARY_SELECTORS, XE_SELECTORS}
          /\ \A i \in 1..Len(result.boards) :
                BundleOf(result.boards[i]) \in {PRIMARY_SELECTORS, XE_SELECTORS}
          /\ ContiguousIds(boards)
          /\ ContiguousIds(result.boards))
    /\ [][scanned' = scanned + 1 /\ outcome' = "no_selectors" =>
             /\ boards' = boards
             /\ seen_urls' = seen_urls
             /\ id_counts' = id_counts]_vars

\* An academic board was made from an anchor whose URL gives the primary
\* bundle; a later anchor of the same category had no bundle (no marker in the
\* document, no default) and was skipped: the list still holds the one board,
\* the counter stands at 1 and the seen set holds the board's URL alone.
C12_Witness ==
    /\ outcome = "no_selectors"
    /\ default_selectors = None
    /\ Len(boards) = 1
    /\ boards[1].id = <<"academic">>
    /\ BundleOf(boards[1]) = PRIMARY_SELECTORS
    /\ id_counts["academic"] = 1
    /\ seen_urls = {boards[1].url}

-----------------------------------------------------------------------------
(* Claims about crawl_campus (SpecCampus) *)

\* C6: a cleaned heading matching the college pattern appends exactly one new
\* College and makes it current, unless its name is that of the last College of
\* the campus; then nothing is appended and the current college stays.
C6_CollegeHeaderOpensOne ==
    [][(steps' = steps + 1 /\ college_pattern(CleanHeading(header'))) =>
          LET text == CleanHeading(header') IN
          IF colleges # <<>> /\ colleges[Len(colleges)].name = text
          THEN colleges' = colleges /\ current_college' = current_college
          ELSE /\ colleges' = Append(colleges, [name |-> text, departments |-> <<>>])
               /\ current_college' = Len(colleges')]_vars

\* A college header repeating the current college, after departments were
\* added to it, was dropped.
C6_Witness ==
    /\ branch = "college_repeated"
    /\ Len(colleges) = 1
    /\ Len(colleges[1].departments) >= 1
    /\ CleanHeading(header) = colleges[1].name

\* C7 as claimed: the College names of a campus are pairwise distinct.
C7_CollegeNamesDistinct ==
    \A i, j \in 1..Len(colleges) : i # j => colleges[i].name # colleges[j].name

\* C7 as amended: two adjacent Colleges of a campus never have the same name.
C7_AdjacentCollegesDiffer ==
    \A i \in 1..(Len(colleges) - 1) : colleges[i].name # colleges[i + 1].name

\* A name occurs twice with another College in between, and a header repeating
\* the current college was dropped.
C7_Witness ==
    /\ branch = "college_repeated"
    /\ Len(colleges) = 3
    /\ colleges[1].name = colleges[3].name

\* Number of Departments in all Colleges of a college list.
RECURSIVE DeptCount(_)
DeptCount(cs) ==
    IF cs = <<>> THEN 0 ELSE Len(cs[1].departments) + DeptCount(Tail(cs))

\* C11: a heading creates a Department only when a College is current and the
\* cleaned text does not contain "대학"; the Department goes to the last College
\* opened and every other College stays as it was; a heading that cleans to
\* empty, or a non-college heading before the first College, changes neither
\* the Colleges nor the current college; and within each College the
\* department names are pairwise distinct.
C11_DepartmentsUnderCurrentCollege ==
    /\ [](\A c \in 1..Len(colleges) :
             \A i, j \in 1..Len(colleges[c].departments) :
                 i # j => colleges[c].departments[i].name
                              # colleges[c].departments[j].name)
    /\ [][steps' = steps + 1 =>
             LET text == CleanHeading(header')
                 last == Len(colleges)
             IN /\ DeptCount(colleges') # DeptCount(colleges) =>
                      /\ colleges # <<>>
                      /\ current_college = last
                      /\ ~Contains(text, <<"daehak">>)
                      /\ Len(colleges') = last
                      /\ \A c \in 1..(last - 1) : colleges'[c] = colleges[c]
                      /\ colleges'[last].name = colleges[last].name
                      /\ Len(colleges'[last].departments)
                            = Len(colleges[last].departments) + 1
                      /\ SubSeq(colleges'[last].departments, 1,
                                Len(colleges[last].departments))
                            = colleges[last].departments
                      /\ colleges'[last].departments[
                            Len(colleges'[last].departments)].name = text
                      /\ current_college' = current_college
                /\ (text = <<>> \/ (colleges = <<>> /\ ~college_pattern(text))) =>
                      /\ colleges' = colleges
                      /\ current_college' = current_college]_vars

\* Two Colleges; the last heading added a Department to the second one only,
\* under the name a Department of the first College already carries.
C11_Witness ==
    /\ branch = "department_added"
    /\ Len(colleges) = 2
    /\ current_college = 2
    /\ Len(colleges[1].departments) = 1
    /\ Len(colleges[2].departments) = 1
    /\ colleges[2].departments[1].name = CleanHeading(header)
    /\ colleges[2].departments[1].name = colleges[1].departments[1].name

-----------------------------------------------------------------------------
(* Claims about main (SpecMain) *)

NumDepts(data) == Len(DeptPaths(data, 1, 1, 1))

\* C8 as claimed: with campuses configured, whatever the fetch outcomes, main
\* reaches the end of the discovery phase and writes its outputs.
C8_OnlyFatalIsNoConfig ==
    (m_pc = "exit" /\ Len(config) > 0) => (exit_code = 0 /\ files = OutputFiles)

\* C8 as amended: main returns 1, with nothing written, exactly when no campus
\* was crawled; otherwise every failed campus is only left out, every department
\* of the crawled campuses is discovered, every failed department only adds a
\* manual-review item, and all outputs are written.
C8_RunSurvivesFetchFailures ==
    m_pc = "exit" =>
        LET nc == Len(config)
            crawled == {i \in 1..nc : fetch_log[i].ok}
            failed_depts == {i \in (nc + 1)..Len(fetch_log) : ~fetch_log[i].ok}
        IN /\ Len(fetch_log) >= nc
           /\ exit_code = 1 <=> crawled = {}
           /\ exit_code = 1 => files = {} /\ Len(fetch_log) = nc
           /\ exit_code # 1 =>
                 /\ exit_code = 0
                 /\ files = OutputFiles
                 /\ Len(campuses) = Cardinality(crawled)
                 /\ Len(fetch_log) = nc + NumDepts(campuses)
                 /\ Len(manual_review_items) = Cardinality(failed_depts)

\* The first campus fetch failed, a department's homepage fetch failed, and
\* main still wrote everything and returned 0.
C8_Witness ==
    /\ m_pc = "exit"
    /\ exit_code = 0
    /\ files = OutputFiles
    /\ ~fetch_log[1].ok
    /\ \E i \in 1..Len(manual_review_items) :
          manual_review_items[i].reason = "Failed to fetch homepage"

-----------------------------------------------------------------------------
(* Claim about detect_cms_selectors (SpecDetect) *)

\* C9: the standard-CMS bundle is returned iff the URL path contains ".do" or
\* the markup contains the board-title marker; otherwise the XE bundle iff the
\* markup contains an XE marker; otherwise None.
C9_PrimaryIffPathOrMarker ==
    d_pc = "done" =>
        LET html == Lower(d_soup.markup)
            primary == \/ Contains(UrlPath(d_url), <<".do">>)
                       \/ Contains(html, <<"c-board-title">>)
            secondary == \/ Contains(html, <<"xe-list-board">>)
                         \/ Contains(html, <<"xe_board">>)
        IN /\ d_result = PRIMARY_SELECTORS <=> primary
           /\ d_result = XE_SELECTORS <=> (~primary /\ secondary)
           /\ d_result = None <=> (~primary /\ ~secondary)

=============================================================================
